---- MODULE Spec2Model ----
(***************************************************************************)
(* A model of split_articles.py: the batch driver (main, process_dir), the *)
(* loader (paragraphs_to_text), the three-tier article boundary detector   *)
(* (split_by_paragraph_markers, split_by_text_regex, fallback) and the     *)
(* JSONL serializer (save_articles_jsonl).                                 *)
(*                                                                         *)
(* Text is a sequence of characters.  A character is one of the strings    *)
(* below; some of them stand for a whole literal word that the regular     *)
(* expressions of the program treat as a unit:                             *)
(*   "STATYA"  the word "Статья" (any letter case: every regex of the      *)
(*             program is compiled or searched with IGNORECASE)            *)
(*   "ARTICLE" the word "Article"                                          *)
(*   "STATTYA" the word "Стаття" (it occurs in the same alternations of    *)
(*             the program as "Article", and is one letter shorter)        *)
(*   "ST"      the letters "Ст"                                            *)
(*   "SECT"    the character "§" (used by the custom pattern)              *)
(*   "No"      the character "№"                                           *)
(*   "NL"      the newline character, " " the space                        *)
(*   "x"       any other letter, "." "?" themselves, "0".."9" the digits   *)
(* Indices into a text count these units; the character offsets the        *)
(* program records (start_char, end_char) count each word with its length. *)
(***************************************************************************)
EXTENDS Integers, Sequences, FiniteSets, TLC

Digits == <<"0", "1", "2", "3", "4", "5", "6", "7", "8", "9">>

IsDigit(c) == \E d \in 1..Len(Digits) : Digits[d] = c

\* \s of the regular expressions and the characters str.strip() removes
IsSpace(c) == c \in {" ", "NL"}

\* the class [\s\.\-–—:] that ends default patterns 1 and 2
IsSep(c) == IsSpace(c) \/ c = "."

\* \w: what \b in default pattern 3 tells apart from the rest
IsWord(c) == IsDigit(c) \/ c \in {"STATYA", "ARTICLE", "STATTYA", "ST", "x"}

\* (Статья|Стаття|Article), case-insensitive
IsKeyword(c) == c \in {"STATYA", "ARTICLE", "STATTYA"}

None == <<>>

\* ---------------------------------------------------------------- strings

RECURSIVE SkipSpaces(_, _)
\* the index after the longest run of \s starting at index i of t
SkipSpaces(t, i) ==
    IF i <= Len(t) /\ IsSpace(t[i]) THEN SkipSpaces(t, i + 1) ELSE i

RECURSIVE SkipDigits(_, _)
\* the index after the longest run of \d starting at index i of t
SkipDigits(t, i) ==
    IF i <= Len(t) /\ IsDigit(t[i]) THEN SkipDigits(t, i + 1) ELSE i

RECURSIVE BackSpaces(_, _)
\* the index before the longest run of \s ending at index i of t
BackSpaces(t, i) ==
    IF i >= 1 /\ IsSpace(t[i]) THEN BackSpaces(t, i - 1) ELSE i

\* str.strip()
Strip(t) ==
    LET a == SkipSpaces(t, 1)
        b == BackSpaces(t, Len(t))
    IN  IF a > b THEN <<>> ELSE SubSeq(t, a, b)

RECURSIVE FindNewline(_, _)
\* the index of the first newline of t at or after i, Len(t) + 1 if none
FindNewline(t, i) ==
    IF i > Len(t) \/ t[i] = "NL" THEN i ELSE FindNewline(t, i + 1)

\* s.split("\n", 1)[0]
SplitFirst(t) == SubSeq(t, 1, FindNewline(t, 1) - 1)

\* chunk.splitlines()[0] if chunk.splitlines() else ""
FirstSplitLine(t) == IF t = <<>> THEN <<>> ELSE SplitFirst(t)

RECURSIVE Join(_)
\* "\n".join(texts)
Join(texts) ==
    IF texts = <<>> THEN <<>>
    ELSE IF Len(texts) = 1 THEN texts[1]
    ELSE texts[1] \o <<"NL">> \o Join(Tail(texts))

RECURSIVE Concat(_)
\* "".join(texts)
Concat(texts) ==
    IF texts = <<>> THEN <<>> ELSE texts[1] \o Concat(Tail(texts))

\* len() of one unit of text: the words count with their letters
Width(c) ==
    CASE c = "STATYA" -> 6
      [] c = "ARTICLE" -> 7
      [] c = "STATTYA" -> 6
      [] c = "ST" -> 2
      [] OTHER -> 1

RECURSIVE CharLen(_)
\* len(t) in characters
CharLen(t) == IF t = <<>> THEN 0 ELSE Width(t[1]) + CharLen(Tail(t))

\* the 0-based character offset of the unit at index i of t
Offset(t, i) == CharLen(SubSeq(t, 1, i - 1))

RECURSIVE Str(_)
\* str(i) for an integer i >= 0
Str(i) ==
    IF i < 10 THEN <<Digits[i + 1]>>
    ELSE Str(i \div 10) \o <<Digits[(i % 10) + 1]>>

\* ------------------------------------------------------ regular expressions
\* Every matcher below answers, for a text t and an index i (1-based), the
\* index just after the match that starts at i, or 0 when nothing matches at i.

\* ^ under re.MULTILINE
LineStart(t, i) == i = 1 \/ t[i - 1] = "NL"

\* \s+№?\s*\d+ from index j; the greedy choice is the only one that can match
NumberTail(t, j) ==
    LET k == SkipSpaces(t, j)
        m == IF k <= Len(t) /\ t[k] = "No" THEN SkipSpaces(t, k + 1) ELSE k
        e == SkipDigits(t, m)
    IN  IF k > j /\ e > m THEN [digits |-> m, end |-> e] ELSE [digits |-> 0, end |-> 0]

\* (?:Статья|Стаття|Article)\s+№?\s*(\d+) at index i
KeywordNumberAt(t, i) ==
    IF i <= Len(t) /\ IsKeyword(t[i]) THEN NumberTail(t, i + 1)
    ELSE [digits |-> 0, end |-> 0]

\* DEFAULT_PATTERNS[0]: (?m)^(Статья|СТАТЬЯ|Стаття|Article)\s+№?\s*\d+[\s\.\-–—:]
MatchP1(t, i) ==
    LET e == KeywordNumberAt(t, i).end
    IN  IF LineStart(t, i) /\ e > 0 /\ e <= Len(t) /\ IsSep(t[e]) THEN e + 1 ELSE 0

\* DEFAULT_PATTERNS[1]: (?m)^Ст\.\?\s*\d+[\s\.\-–—:]  ("\?" is a literal "?")
MatchP2(t, i) ==
    IF LineStart(t, i) /\ i + 2 <= Len(t)
       /\ t[i] = "ST" /\ t[i + 1] = "." /\ t[i + 2] = "?"
    THEN LET m == SkipSpaces(t, i + 3)
             e == SkipDigits(t, m)
         IN  IF e > m /\ e <= Len(t) /\ IsSep(t[e]) THEN e + 1 ELSE 0
    ELSE 0

\* DEFAULT_PATTERNS[2]: (?m)^Статья\s+№?\s*\d+\b
MatchP3(t, i) ==
    LET e == KeywordNumberAt(t, i).end
    IN  IF LineStart(t, i) /\ i <= Len(t) /\ t[i] = "STATYA" /\ e > 0
           /\ (e > Len(t) \/ ~IsWord(t[e]))
        THEN e ELSE 0

\* the custom pattern r'§' of --add-pattern
MatchSect(t, i) == IF i <= Len(t) /\ t[i] = "SECT" THEN i + 1 ELSE 0

DEFAULT_PATTERNS == <<"P1", "P2", "P3">>

\* a pattern that re.compile rejects whatever surrounds it, such as r'('
Malformed(p) == p = "PBAD"

\* a pattern that begins with a global inline flag, such as (?m)
HasInlineFlag(p) == p \in {"P1", "P2", "P3"}

MatchPattern(p, t, i) ==
    CASE p = "P1" -> MatchP1(t, i)
      [] p = "P2" -> MatchP2(t, i)
      [] p = "P3" -> MatchP3(t, i)
      [] p = "PSECT" -> MatchSect(t, i)
      [] OTHER -> 0

RECURSIVE MatchAlternation(_, _, _)
\* the alternation of patterns at index i: the first alternative that matches
MatchAlternation(patterns, t, i) ==
    IF patterns = <<>> THEN 0
    ELSE LET e == MatchPattern(patterns[1], t, i)
         IN  IF e > 0 THEN e ELSE MatchAlternation(Tail(patterns), t, i)

RECURSIVE Search(_, _, _)
\* pattern.search(t, pos): the leftmost match at or after pos as [start, end],
\* start = 0 when there is none
Search(patterns, t, pos) ==
    IF pos > Len(t) THEN [start |-> 0, end |-> 0]
    ELSE LET e == MatchAlternation(patterns, t, pos)
         IN  IF e > 0 THEN [start |-> pos, end |-> e]
             ELSE Search(patterns, t, pos + 1)

RECURSIVE FindIter(_, _, _)
\* list(pattern.finditer(t)) from pos on: the successive non-overlapping matches
FindIter(patterns, t, pos) ==
    LET m == Search(patterns, t, pos)
    IN  IF m.start = 0 THEN <<>>
        ELSE <<m>> \o FindIter(patterns, t, m.end)

\* CompileOk, were a malformed pattern skipped instead of raising
CompileSkipsMalformed(patterns, strict) ==
    \A n \in 1..Len(patterns) : ~(strict /\ HasInlineFlag(patterns[n]))

\* re.compile of the patterns, each wrapped in a group and joined by "|": fails on
\* a malformed pattern, and, on an interpreter that rejects global inline flags
\* anywhere but at the start of the expression (Python 3.11 and later; earlier
\* ones only warn), on a pattern that begins with such a flag, because the
\* wrapping group moves the flag away from the start
CompileOk(patterns, strict) ==
    \A n \in 1..Len(patterns) :
        /\ ~Malformed(patterns[n])
        /\ ~(strict /\ HasInlineFlag(patterns[n]))


\* ------------------------------------------------------------------ loader

\* "heading" in style.lower()
IsHeadingStyle(style) == style \in {"Heading 1", "HEADING 2"}

\* p.text of a python-docx paragraph: the texts of its runs, concatenated
ParagraphText(p) == Concat([n \in 1..Len(p.runs) |-> p.runs[n].text])

\* any((run.bold or False) for run in p.runs if run.text.strip())
RunsBold(p) ==
    \E n \in 1..Len(p.runs) : Strip(p.runs[n].text) # <<>> /\ p.runs[n].bold

RECURSIVE paragraphs_to_text(_)
\* the records of the paragraphs whose stripped text is not empty, in order
paragraphs_to_text(body) ==
    IF body = <<>> THEN <<>>
    ELSE LET p == body[1]
             text == Strip(ParagraphText(p))
         IN  (IF text # <<>>
              THEN <<[text |-> text, style |-> p.style, is_bold |-> RunsBold(p)]>>
              ELSE <<>>) \o paragraphs_to_text(Tail(body))

\* ---------------------------------------------------------------- detector

\* re.search(r'статья|стаття|article', txt, re.I)
HasKeyword(txt) == \E i \in 1..Len(txt) : IsKeyword(txt[i])

\* re.search(r'^\s*(Статья|Стаття|Article)\s+№?\s*\d+', txt, re.I); no MULTILINE,
\* so ^ is the start of the text only
BoldHeading(txt) == KeywordNumberAt(txt, SkipSpaces(txt, 1)).end > 0

HeadingCond(p) == p.style # "" /\ IsHeadingStyle(p.style) /\ HasKeyword(p.text)

BoldCond(p) == p.is_bold /\ BoldHeading(p.text)

PatternCond(p, patterns) == Search(patterns, p.text, 1).start > 0

\* Marks, were the two `continue` statements missing
MarksNoContinue(p, idx, patterns) ==
    (IF HeadingCond(p) THEN <<idx>> ELSE <<>>)
    \o (IF BoldCond(p) THEN <<idx>> ELSE <<>>)
    \o (IF PatternCond(p, patterns) THEN <<idx>> ELSE <<>>)

\* one pass of the loop body for the paragraph at (0-based) index idx: what it
\* appends to boundaries; each `continue` skips the tests that follow it
Marks(p, idx, patterns) ==
    IF HeadingCond(p) THEN <<idx>>
    ELSE IF BoldCond(p) THEN <<idx>>
    ELSE IF PatternCond(p, patterns) THEN <<idx>>
    ELSE <<>>

RECURSIVE BoundariesFrom(_, _, _)
\* boundaries after the loop has run over paras[idx:], idx 0-based
BoundariesFrom(paras, idx, patterns) ==
    IF idx >= Len(paras) THEN <<>>
    ELSE Marks(paras[idx + 1], idx, patterns) \o BoundariesFrom(paras, idx + 1, patterns)

Boundaries(paras, patterns) == BoundariesFrom(paras, 0, patterns)

\* paras[a:b], 0-based and half-open as in Python, as the list of the texts
Texts(paras, a, b) == [n \in 1..(b - a) |-> paras[a + n].text]

\* EndIdx, were the last span to end after its own first paragraph
EndIdxHeaderOnly(boundaries, i, paras) ==
    IF i + 1 <= Len(boundaries) THEN boundaries[i + 1] ELSE boundaries[i] + 1

\* end_idx of the span that starts at boundaries[i] (i 1-based)
EndIdx(boundaries, i, paras) ==
    IF i + 1 <= Len(boundaries) THEN boundaries[i + 1] ELSE Len(paras)

\* EndPara, were the exclusive end_idx stored
EndParaExclusive(end_idx) == end_idx

\* the value stored as end_para
EndPara(end_idx) == end_idx - 1

ParagraphSpan(paras, boundaries, i) ==
    LET start_idx == boundaries[i]
        end_idx == EndIdx(boundaries, i, paras)
    IN  [header |-> SplitFirst(paras[start_idx + 1].text),
         text |-> Strip(Join(Texts(paras, start_idx, end_idx))),
         start_para |-> start_idx,
         end_para |-> EndPara(end_idx)]

\* tier 1; None when no paragraph is a boundary
split_by_paragraph_markers(paras, patterns) ==
    LET boundaries == Boundaries(paras, patterns)
    IN  IF boundaries = <<>> THEN None
        ELSE [i \in 1..Len(boundaries) |-> ParagraphSpan(paras, boundaries, i)]

\* end of the span of the i-th match, as an index: full_text[start:end] is
\* SubSeq(full_text, matches[i].start, SpanEnd - 1)
SpanEnd(full_text, matches, i) ==
    IF i + 1 <= Len(matches) THEN matches[i + 1].start ELSE Len(full_text) + 1

\* the span of the i-th match; start_char and end_char are m.start() and the
\* next m.start() (or len(full_text)): 0-based character offsets, end exclusive
TextSpan(full_text, matches, i) ==
    LET start == matches[i].start
        end == SpanEnd(full_text, matches, i)
        chunk == Strip(SubSeq(full_text, start, end - 1))
    IN  [header |-> FirstSplitLine(chunk), text |-> chunk,
         start_char |-> Offset(full_text, start), end_char |-> Offset(full_text, end)]

\* tier 2; None when the flattened text has no match
split_by_text_regex(full_text, patterns) ==
    LET matches == FindIter(patterns, full_text, 1)
    IN  IF matches = <<>> THEN None
        ELSE [i \in 1..Len(matches) |-> TextSpan(full_text, matches, i)]

\* "\n".join(p["text"] for p in paras)
FullText(paras) == Join(Texts(paras, 0, Len(paras)))

FullDocument == <<"(full document)">>

\* FallbackArticles, were only the first line of the text kept
FallbackFirstLine(full_text) ==
    <<[header |-> FullDocument, text |-> SplitFirst(full_text), fallback |-> TRUE]>>

\* tier 3
FallbackArticles(full_text) ==
    <<[header |-> FullDocument, text |-> full_text, fallback |-> TRUE]>>

\* `if articles:` after a tier: the tier's result is returned
Found(articles) == articles # None /\ Len(articles) > 0

\* AfterTier1, were the early return missing
AfterTier1NoReturn(articles) == "tier2"

\* extract_articles_from_docx after tier 1: `if articles: return articles`,
\* otherwise tier 2 is evaluated
AfterTier1(articles) == IF Found(articles) THEN "save" ELSE "tier2"

\* extract_articles_from_docx after tier 2: `if articles: return articles`,
\* otherwise the fallback record is built
AfterTier2(articles) == IF Found(articles) THEN "save" ELSE "fallback"

\* -------------------------------------------------------------- serializer

RECURSIVE NumberSearch(_, _)
\* re.search(r'(?:Статья|Стаття|Article)\s+№?\s*(\d+)', header, re.IGNORECASE)
\* from index i on: group(1) of the leftmost match, None when there is no match
NumberSearch(header, i) ==
    IF i > Len(header) THEN None
    ELSE LET m == KeywordNumberAt(header, i)
         IN  IF m.end > 0 THEN SubSeq(header, m.digits, m.end - 1)
             ELSE NumberSearch(header, i + 1)

\* ArticleNumber, were the position counted from 0
ArticleNumberFromZero(header, i) ==
    LET g == NumberSearch(header, 1)
    IN  IF g # None THEN g ELSE Str(i - 1)

\* num = m.group(1) if m else str(i)
ArticleNumber(header, i) ==
    LET g == NumberSearch(header, 1)
    IN  IF g # None THEN g ELSE Str(i)

\* A Path is the sequence of its parts, and a part is a string: a sequence of
\* units, the suffix ".docx" being the last unit of a file name.

\* Path(s) for a string s with no separator: "." names the current directory,
\* which has no part
PathOf(s) == IF s = <<".">> THEN <<>> ELSE <<s>>

\* the final part of a path, which process_dir prints for the file
Name(path) == IF path = <<>> THEN <<>> ELSE path[Len(path)]

\* Path(source_path).stem: the final part without its suffix; a name that is
\* nothing but ".docx" has no suffix
Stem(path) ==
    LET name == Name(path)
    IN  IF Len(name) > 1 /\ name[Len(name)] = ".docx"
        THEN SubSeq(name, 1, Len(name) - 1) ELSE name

RECURSIVE PathStr(_)
\* str(path): the parts with "/" between them, "." for the path with no part
PathStr(path) ==
    IF path = <<>> THEN <<".">>
    ELSE IF Len(path) = 1 THEN path[1]
    ELSE path[1] \o <<"/">> \o PathStr(Tail(path))

\* f"{base}_article_{num}"
RecordId(base, num) == base \o <<"_article_">> \o num

\* {k: v for k, v in a.items() if k not in ("header", "text")}
Meta(a) == [f \in (DOMAIN a) \ {"header", "text"} |-> a[f]]

\* Record, were the position made part of the id
RecordUniqueId(a, i, source_path) ==
    LET num == ArticleNumber(a.header, i)
    IN  [id |-> RecordId(Stem(source_path), num) \o <<"_">> \o Str(i),
         article_number |-> num,
         title |-> a.header,
         text |-> a.text,
         source_file |-> PathStr(source_path),
         meta |-> Meta(a)]

\* the object of one article: source_file is the path as process_dir passes it,
\* the input directory included
Record(a, i, source_path) ==
    LET num == ArticleNumber(a.header, i)
    IN  [id |-> RecordId(Stem(source_path), num),
         article_number |-> num,
         title |-> a.header,
         text |-> a.text,
         source_file |-> PathStr(source_path),
         meta |-> Meta(a)]

\* the lines one call of save_articles_jsonl writes, in order
Records(articles, source_path) ==
    [i \in 1..Len(articles) |-> Record(articles[i], i, source_path)]

\* Written, were the file opened with mode "w"
WrittenTruncating(old, lines) == lines

\* the content of the output file after the call: opened with mode "a"
Written(old, lines) == old \o lines


\* ------------------------------------------------------------------ driver

\* Handler, were save_articles_jsonl called outside the try block
HandlerExtractOnly(step) == IF step = "save" THEN "crashed" ELSE "except"

\* where control goes when a step of the try block raises: every step named
\* here is inside `try:`, and `except Exception` catches what it raises.  The
\* position "crashed" is an exception that leaves process_dir and main.
Handler(step) == "except"

\* ------------------------------------------------------------------ inputs

MaxParas == 3
MaxFiles == 2
MaxRuns == 2

Run(text, bold) == [text |-> text, bold |-> bold]

\* The paragraphs the documents are built from.

\* bold "Статья 1. x"
ParaBoldArticle ==
    [style |-> "Normal", runs |-> <<Run(<<"STATYA", " ", "1", ".", " ", "x">>, TRUE)>>]

\* plain "Article 2": no trailing separator, not bold
ParaPlainArticle ==
    [style |-> "Normal", runs |-> <<Run(<<"ARTICLE", " ", "2">>, FALSE)>>]

\* plain body text that starts with a number, padded with blanks
ParaBody ==
    [style |-> "Normal", runs |-> <<Run(<<" ", "1", " ", "x", " ">>, FALSE)>>]

\* a heading-styled title with the keyword and no number
ParaHeading ==
    [style |-> "Heading 1", runs |-> <<Run(<<"x", " ", "ARTICLE">>, FALSE)>>]

\* "Статья № 2." in two runs, the first of them bold
ParaTwoRuns ==
    [style |-> "Normal", runs |-> <<Run(<<"STATYA", " ", "No">>, TRUE),
                                    Run(<<" ", "2", ".">>, FALSE)>>]

\* a paragraph of blanks, in a bold run
ParaBlank ==
    [style |-> "Normal", runs |-> <<Run(<<" ">>, TRUE)>>]

\* two lines, the second of which starts an article
ParaTwoLines ==
    [style |-> "Normal", runs |-> <<Run(<<"x", "NL", "STATYA", " ", "1", ".">>, FALSE)>>]

\* "§Стаття", with no style name
ParaSect ==
    [style |-> "", runs |-> <<Run(<<"SECT", "STATTYA">>, FALSE)>>]

\* "Ст.?1."
ParaAbbrev ==
    [style |-> "Normal", runs |-> <<Run(<<"ST", ".", "?", "1", ".">>, FALSE)>>]

\* the bare word "Статья"
ParaKeyword ==
    [style |-> "Normal", runs |-> <<Run(<<"STATYA">>, FALSE)>>]

RawParas ==
    { ParaBoldArticle, ParaPlainArticle, ParaBody, ParaHeading, ParaTwoRuns,
      ParaBlank, ParaTwoLines, ParaSect, ParaAbbrev, ParaKeyword }

\* the bodies of at most n paragraphs
Bodies(n) == UNION { [1..m -> RawParas] : m \in 0..n }

\* the name of the i-th file that glob yields; names in one directory differ
FileName(i) == <<"f">> \o Str(i) \o <<".docx">>

Stems == { Stem(PathOf(FileName(i))) : i \in 1..MaxFiles }

\* the values of --input-dir: the current directory and the directory "in"
InputDirs == { <<".">>, <<"in">> }

\* what Path(input_dir).glob yields for a file name: the path input_dir / name
GlobPath(dir, name) == Append(PathOf(dir), name)

File(dir, i, valid, body, writable) ==
    [path |-> GlobPath(dir, FileName(i)), valid |-> valid, body |-> body,
     writable |-> writable]


\* the documents of the directories with several files
BatchBodies ==
    { <<ParaBoldArticle, ParaBody, ParaTwoRuns>>,   \* tier 1, two articles
      <<ParaPlainArticle, ParaBody>>,               \* tier 2, one article
      <<>> }                                        \* no paragraph at all

\* what the i-th file of a directory can be: a document, a file that is no
\* document (valid = FALSE), or a document whose output file cannot be opened
FileChoices(dir, i) ==
    { File(dir, i, TRUE, b, TRUE) : b \in BatchBodies }
    \cup { File(dir, i, FALSE, <<>>, TRUE),
           File(dir, i, TRUE, <<ParaBoldArticle, ParaBody, ParaTwoRuns>>, FALSE) }

\* the listings of at most n files of the directory dir
Dirs(dir, n) ==
    UNION { { d \in [1..m -> UNION { FileChoices(dir, i) : i \in 1..m }] :
                \A i \in 1..m : d[i] \in FileChoices(dir, i) } : m \in 0..n }

\* the values of --add-pattern: absent, r'§', and the malformed r'('
AddPatterns == { <<>>, <<"PSECT">>, <<"PBAD">> }

\* ------------------------------------------------------------------- state

VARIABLES
    inputDir,     \* args.input_dir
    addPattern,   \* args.add_pattern
    strictFlags,  \* the interpreter rejects a global inline flag that is not at
                  \* the start of a regex (Python >= 3.11)
    files,        \* list(input_dir.glob("*.docx")), with what each file holds
    pc,           \* the position of the program
    k,            \* the (1-based) index in files of the file of the for loop
    patterns,     \* main's patterns
    paras,        \* extract_articles_from_docx's paras
    articles,     \* the articles of the current file
    log,          \* what was printed, in order
    out,          \* the output directory: stem |-> the lines of <stem>.jsonl
    runs          \* the number of runs of the tool started so far

vars == <<inputDir, addPattern, strictFlags, files, pc, k, patterns, paras, articles, log, out, runs>>

env == <<inputDir, addPattern, strictFlags, files>>

Cur == files[k]

Init ==
    /\ \/ \* one document of any shape, in the directory "in"
          /\ inputDir = <<"in">>
          /\ files \in { <<File(inputDir, 1, TRUE, b, TRUE)>> : b \in Bodies(MaxParas) }
          /\ addPattern \in { <<>>, <<"PSECT">> }
          /\ strictFlags = FALSE
       \/ \* a directory of several files, any of which may fail
          /\ inputDir \in InputDirs
          /\ files \in Dirs(inputDir, MaxFiles)
          /\ addPattern \in AddPatterns
          /\ strictFlags \in BOOLEAN
    /\ pc = "main"
    /\ k = 1
    /\ patterns = <<>>
    /\ paras = <<>>
    /\ articles = None
    /\ log = <<>>
    /\ out = [s \in Stems |-> <<>>]
    /\ runs = 1

\* main: patterns = args.add_pattern + DEFAULT_PATTERNS, then process_dir
Main ==
    /\ pc = "main"
    /\ patterns' = addPattern \o DEFAULT_PATTERNS
    /\ pc' = "loop"
    /\ k' = 1
    /\ UNCHANGED <<env, paras, articles, log, out, runs>>

\* process_dir: `if not files:` prints and returns
NoFiles ==
    /\ pc = "loop"
    /\ files = <<>>
    /\ log' = Append(log, [kind |-> "nofiles", dir |-> PathStr(PathOf(inputDir))])
    /\ pc' = "done"
    /\ UNCHANGED <<env, k, patterns, paras, articles, out, runs>>

\* process_dir: the for loop takes the next file and prints its name
BeginFile ==
    /\ pc = "loop"
    /\ k <= Len(files)
    /\ log' = Append(log, [kind |-> "processing", name |-> Name(Cur.path)])
    /\ pc' = "load"
    /\ UNCHANGED <<env, k, patterns, paras, articles, out, runs>>

\* process_dir: the for loop is exhausted
EndLoop ==
    /\ pc = "loop"
    /\ files # <<>>
    /\ k > Len(files)
    /\ pc' = "done"
    /\ UNCHANGED <<env, k, patterns, paras, articles, log, out, runs>>

\* extract_articles_from_docx: Document(path) raises on a file that is no
\* document; otherwise paras = paragraphs_to_text(doc)
Load ==
    /\ pc = "load"
    /\ IF Cur.valid
       THEN /\ paras' = paragraphs_to_text(Cur.body)
            /\ pc' = "tier1"
       ELSE /\ pc' = Handler("load")
            /\ UNCHANGED paras
    /\ UNCHANGED <<env, k, patterns, articles, log, out, runs>>

\* extract_articles_from_docx: articles = split_by_paragraph_markers(...);
\* `if articles: return articles`.  re.compile is its first statement.
Tier1 ==
    /\ pc = "tier1"
    /\ IF CompileOk(patterns, strictFlags)
       THEN /\ articles' = split_by_paragraph_markers(paras, patterns)
            /\ pc' = AfterTier1(articles')
       ELSE /\ pc' = Handler("tier1")
            /\ UNCHANGED articles
    /\ UNCHANGED <<env, k, patterns, paras, log, out, runs>>

\* extract_articles_from_docx: articles = split_by_text_regex(full_text, ...);
\* `if articles: return articles`
Tier2 ==
    /\ pc = "tier2"
    /\ IF CompileOk(patterns, strictFlags)
       THEN /\ articles' = split_by_text_regex(FullText(paras), patterns)
            /\ pc' = AfterTier2(articles')
       ELSE /\ pc' = Handler("tier2")
            /\ UNCHANGED articles
    /\ UNCHANGED <<env, k, patterns, paras, log, out, runs>>

\* extract_articles_from_docx: the whole document as one record
Fallback ==
    /\ pc = "fallback"
    /\ articles' = FallbackArticles(FullText(paras))
    /\ pc' = "save"
    /\ UNCHANGED <<env, k, patterns, paras, log, out, runs>>

\* save_articles_jsonl: mkdir or open raises when the output file cannot be
\* opened; otherwise one line per article is appended to <stem>.jsonl
Save ==
    /\ pc = "save"
    /\ IF Cur.writable
       THEN /\ out' = [out EXCEPT ![Stem(Cur.path)] =
                          Written(@, Records(articles, Cur.path))]
            /\ pc' = "report"
       ELSE /\ pc' = Handler("save")
            /\ UNCHANGED out
    /\ UNCHANGED <<env, k, patterns, paras, articles, log, runs>>

\* process_dir: prints the number of records saved; the loop goes on
Report ==
    /\ pc = "report"
    /\ log' = Append(log, [kind |-> "saved", name |-> Name(Cur.path), n |-> Len(articles)])
    /\ k' = k + 1
    /\ pc' = "loop"
    /\ paras' = <<>>
    /\ articles' = None
    /\ UNCHANGED <<env, patterns, out, runs>>

\* process_dir: `except Exception as e:` prints the error; the loop goes on
Except ==
    /\ pc = "except"
    /\ log' = Append(log, [kind |-> "error", name |-> Name(Cur.path)])
    /\ k' = k + 1
    /\ pc' = "loop"
    /\ paras' = <<>>
    /\ articles' = None
    /\ UNCHANGED <<env, patterns, out, runs>>

\* the tool is run again with the same arguments: a new process, whose output
\* starts empty, over the same input and output directories
Rerun ==
    /\ pc = "done"
    /\ runs < MaxRuns
    /\ runs' = runs + 1
    /\ pc' = "main"
    /\ k' = 1
    /\ patterns' = <<>>
    /\ log' = <<>>
    /\ UNCHANGED <<env, paras, articles, out>>

\* one step of a run of the tool
Step ==
    \/ Main \/ NoFiles \/ BeginFile \/ EndLoop \/ Load \/ Tier1 \/ Tier2
    \/ Fallback \/ Save \/ Report \/ Except

Next == Step \/ Rerun

Spec == Init /\ [][Next]_vars


\* ------------------------------------------------------------- properties

IsParaSpan(a) == DOMAIN a = {"header", "text", "start_para", "end_para"}

IsCharSpan(a) == DOMAIN a = {"header", "text", "start_char", "end_char"}

IsFallbackSpan(a) == DOMAIN a = {"header", "text", "fallback"}

\* the paragraph is a boundary of tier 1: one of the three conditions holds
IsBoundaryPara(p, pats) == HeadingCond(p) \/ BoldCond(p) \/ PatternCond(p, pats)

\* the (1-based) indices of the boundary paragraphs
BoundaryParas(ps, pats) == { i \in 1..Len(ps) : IsBoundaryPara(ps[i], pats) }

\* the (1-based) indices of the flattened text at which a match starts
MatchStarts(ps, pats) ==
    { i \in 1..Len(FullText(ps)) : MatchAlternation(pats, FullText(ps), i) > 0 }

Min(S) == CHOOSE x \in S : \A y \in S : x <= y

\* the file can be processed to the end: it loads, the patterns compile and
\* its output file can be opened
Processable(f) == f.valid /\ f.writable /\ CompileOk(patterns, strictFlags)

Lines(f) == out[Stem(f.path)]

NonEmpty(t) == t # <<>>

\* the stripped texts of the paragraphs of the document that are not blank
NonEmptyTexts(body) ==
    SelectSeq([i \in 1..Len(body) |-> Strip(ParagraphText(body[i]))], NonEmpty)

\* C1: the tiers are tried in order and the first success wins: tier 2 is
\* evaluated only when no paragraph is a tier 1 boundary, the fallback record is
\* built only when in addition the flattened text has no match, and the list
\* handed to the serializer is of one tier only: all paragraph spans (and then
\* some paragraph is a boundary), all character spans (and then none is, and the
\* text has a match), or the single fallback span (and then neither).
C1_TiersInOrder ==
    /\ pc = "tier2" => BoundaryParas(paras, patterns) = {}
    /\ pc = "fallback" =>
          BoundaryParas(paras, patterns) = {} /\ MatchStarts(paras, patterns) = {}
    /\ pc \in {"save", "report"} =>
          \/ /\ \A i \in 1..Len(articles) : IsParaSpan(articles[i])
             /\ BoundaryParas(paras, patterns) # {}
          \/ /\ \A i \in 1..Len(articles) : IsCharSpan(articles[i])
             /\ BoundaryParas(paras, patterns) = {}
             /\ MatchStarts(paras, patterns) # {}
          \/ /\ Len(articles) = 1 /\ IsFallbackSpan(articles[1])
             /\ BoundaryParas(paras, patterns) = {}
             /\ MatchStarts(paras, patterns) = {}

\* tier 2 was evaluated and won, with two spans
C1_Witness ==
    pc = "save" /\ Len(articles) = 2 /\ IsCharSpan(articles[1]) /\ Len(paras) = 3

\* C2: when the run is over, every processable document in which no paragraph
\* is a boundary and whose flattened text has no match (a document without any
\* non-blank paragraph among them) has got exactly one record per run; its title
\* is "(full document)", its meta is the fallback marker alone, and its text is
\* the texts of all non-blank paragraphs joined with newlines, in order.
C2_FallbackRecord ==
    pc = "done" =>
        \A i \in 1..Len(files) :
            LET f == files[i]
                ps == paragraphs_to_text(f.body)
            IN  (Processable(f) /\ BoundaryParas(ps, patterns) = {}
                 /\ MatchStarts(ps, patterns) = {}) =>
                    /\ Len(Lines(f)) = runs
                    /\ \A j \in 1..Len(Lines(f)) :
                          /\ Lines(f)[j].title = <<"(full document)">>
                          /\ Lines(f)[j].meta = [fallback |-> TRUE]
                          /\ Lines(f)[j].text = Join(NonEmptyTexts(f.body))

\* a document of three paragraphs, one of them blank, was written as one
\* fallback record
C2_Witness ==
    /\ pc = "done" /\ Len(files) = 1 /\ Len(files[1].body) = 3
    /\ Len(NonEmptyTexts(files[1].body)) = 2
    /\ Len(Lines(files[1])) = 1
    /\ Lines(files[1])[1].meta = [fallback |-> TRUE]

\* the number of records one run writes for a document with paragraphs ps
\* according to C3
Detected(ps, pats) ==
    IF BoundaryParas(ps, pats) # {} THEN Cardinality(BoundaryParas(ps, pats))
    ELSE Cardinality(MatchStarts(ps, pats))

\* C3: when the run is over, every processable document with a tier 1 boundary
\* has got, per run, as many records as it has boundary paragraphs, each counted
\* once however many of the three conditions it satisfies; a document without
\* one whose flattened text has a match has got as many records as the text has
\* matches.
C3_RecordCount ==
    pc = "done" =>
        \A i \in 1..Len(files) :
            LET f == files[i]
                ps == paragraphs_to_text(f.body)
            IN  (Processable(f) /\ Detected(ps, patterns) > 0) =>
                    Len(Lines(f)) = runs * Detected(ps, patterns)

\* a directory with a tier 1 document of two boundaries (each of them bold and
\* matching a pattern too) and a tier 2 document, both written
C3_Witness ==
    /\ pc = "done" /\ Len(files) = 2
    /\ \E i, j \in 1..2 :
          LET pi == paragraphs_to_text(files[i].body)
              pj == paragraphs_to_text(files[j].body)
          IN  /\ Cardinality(BoundaryParas(pi, patterns)) = 2
              /\ \A n \in BoundaryParas(pi, patterns) :
                    BoldCond(pi[n]) /\ PatternCond(pi[n], patterns)
              /\ Len(Lines(files[i])) = 2
              /\ BoundaryParas(pj, patterns) = {}
              /\ Cardinality(MatchStarts(pj, patterns)) = 1
              /\ Len(Lines(files[j])) = 1

\* the start and end indices a span records
SpanStart(a) == IF IsParaSpan(a) THEN a.start_para ELSE a.start_char

SpanEndIndex(a) == IF IsParaSpan(a) THEN a.end_para ELSE a.end_char

Spans == IF pc = "save" /\ ~IsFallbackSpan(articles[1]) THEN articles ELSE <<>>

\* C4 as stated: in the list the detector returns, the end recorded for a span
\* equals the start recorded for the next one, in tier 1 as in tier 2.
C4_Original ==
    Spans # <<>> =>
        /\ \A i \in 1..(Len(Spans) - 1) :
              SpanEndIndex(Spans[i]) = SpanStart(Spans[i + 1])
        /\ SpanStart(Spans[1]) =
              IF IsParaSpan(Spans[1]) THEN Min(BoundaryParas(paras, patterns)) - 1
              ELSE Offset(FullText(paras), Min(MatchStarts(paras, patterns)))
        /\ SpanEndIndex(Spans[Len(Spans)]) \in
              IF IsParaSpan(Spans[1]) THEN {Len(paras) - 1, Len(paras)}
              ELSE {CharLen(FullText(paras))}

\* C4, amended: character spans (tier 2) record a half-open range: the end of a
\* span is the start of the next, the first start is the offset of the first
\* match and the last end is the length of the flattened text.  Paragraph spans
\* (tier 1) record an inclusive range: the end of a span is the index just
\* before the start of the next, the first start is the index of the first
\* boundary paragraph and the last end is the index of the last paragraph.
C4_Contiguous ==
    Spans # <<>> =>
        IF IsParaSpan(Spans[1])
        THEN /\ \A i \in 1..(Len(Spans) - 1) :
                    Spans[i].end_para + 1 = Spans[i + 1].start_para
             /\ Spans[1].start_para = Min(BoundaryParas(paras, patterns)) - 1
             /\ Spans[Len(Spans)].end_para = Len(paras) - 1
        ELSE /\ \A i \in 1..(Len(Spans) - 1) :
                    Spans[i].end_char = Spans[i + 1].start_char
             /\ Spans[1].start_char =
                    Offset(FullText(paras), Min(MatchStarts(paras, patterns)))
             /\ Spans[Len(Spans)].end_char = CharLen(FullText(paras))

\* tier 1 returned two spans, the first of two paragraphs
C4_Witness ==
    /\ Len(Spans) = 2 /\ IsParaSpan(Spans[1])
    /\ Spans[1].start_para = 0 /\ Spans[1].end_para = 1

\* the header has the keyword at index i, then whitespace, an optional "№" and
\* a decimal number whose digits are header[a..b]
NumberedAt(header, i, a, b) ==
    /\ IsKeyword(header[i])
    /\ i + 1 < a /\ a <= b
    /\ IsSpace(header[i + 1])
    /\ \A n \in (i + 1)..(a - 1) : IsSpace(header[n]) \/ header[n] = "No"
    /\ Cardinality({ n \in (i + 1)..(a - 1) : header[n] = "No" }) <= 1
    /\ \A n \in a..b : IsDigit(header[n])
    /\ b = Len(header) \/ ~IsDigit(header[b + 1])

\* the keywords of the header that a number follows
NumberedKeywords(header) ==
    { i \in 1..Len(header) :
        \E a, b \in 1..Len(header) : NumberedAt(header, i, a, b) }

\* article_number according to C5 for the header of the span at position i:
\* the digits after the first keyword that a number follows, else str(i)
ExpectedNumber(header, i) ==
    IF NumberedKeywords(header) # {}
    THEN LET w == Min(NumberedKeywords(header))
             ab == CHOOSE ab \in (1..Len(header)) \X (1..Len(header)) :
                       NumberedAt(header, w, ab[1], ab[2])
         IN  SubSeq(header, ab[1], ab[2])
    ELSE Str(i)

\* the lines the call of save_articles_jsonl that has just returned wrote
JustWritten ==
    IF pc = "report"
    THEN SubSeq(Lines(Cur), Len(Lines(Cur)) - Len(articles) + 1, Len(Lines(Cur)))
    ELSE <<>>

\* C5: the record written for the span at (1-based) position i of the list has
\* as article_number the digits of the number that follows the keyword in the
\* header, and the decimal form of i when the header has no such number; its id
\* is the stem of the source file, "_article_" and the article_number.
C5_ArticleNumber ==
    /\ Len(JustWritten) = IF pc = "report" THEN Len(articles) ELSE 0
    /\ \A i \in 1..Len(JustWritten) :
          /\ JustWritten[i].article_number = ExpectedNumber(articles[i].header, i)
          /\ JustWritten[i].id =
                Stem(Cur.path) \o <<"_article_">> \o JustWritten[i].article_number

\* three records: the first numbered "2" by its header, the second with a header
\* without a number and so numbered by its position, the third numbered "1" by
\* its header
C5_Witness ==
    /\ Len(JustWritten) = 3
    /\ NumberedKeywords(articles[1].header) # {}
    /\ JustWritten[1].article_number = <<"2">>
    /\ NumberedKeywords(articles[2].header) = {}
    /\ JustWritten[2].article_number = <<"2">>
    /\ JustWritten[3].article_number = <<"1">>


IsPrefix(a, b) == Len(a) <= Len(b) /\ SubSeq(b, 1, Len(a)) = a

\* lines is kk copies, one after the other, of its first n lines
Copies(lines, kk, n) ==
    /\ Len(lines) = kk * n
    /\ \A j \in 1..Len(lines) : lines[j] = lines[((j - 1) % n) + 1]

\* C6: the output is append-only: no step removes or changes a line of an
\* output file, and when the k-th run over the same directories is over, each
\* output file holds k consecutive copies of the n records of its document
\* (n >= 1 for a processable document; no line at all for a file that fails).
C6_AppendOnly ==
    /\ [][\A s \in Stems : IsPrefix(out[s], out'[s])]_vars
    /\ [](pc = "done" =>
            \A i \in 1..Len(files) :
                \E n \in 0..Len(Lines(files[i])) :
                    /\ Copies(Lines(files[i]), runs, n)
                    /\ (n >= 1) <=> Processable(files[i]))

\* the second run is over and a file holds twice the two records of its document
C6_Witness ==
    /\ pc = "done" /\ runs = 2 /\ Len(files) >= 1
    /\ Len(Lines(files[1])) = 4
    /\ Lines(files[1])[1] # Lines(files[1])[2]

\* the file at index i of the listing, as the log names it
Logged(kind, i) == [kind |-> kind, name |-> Name(files[i].path)]

InFile == pc \in {"load", "tier1", "tier2", "fallback", "save", "report", "except"}

\* what has been printed is, file by file in the order of the listing, the
\* line that names the file and then the line with its outcome; the file being
\* processed is the only one that may lack its outcome
C7_Log ==
    /\ pc # "crashed"
    /\ files # <<>> =>
          /\ Len(log) = IF InFile THEN 2 * k - 1
                        ELSE IF pc = "main" THEN 0 ELSE 2 * (k - 1)
          /\ \A j \in 1..Len(log) :
                IF j % 2 = 1 THEN log[j] = Logged("processing", (j + 1) \div 2)
                ELSE /\ log[j].kind \in {"saved", "error"}
                     /\ log[j].name = Name(files[j \div 2].path)
    /\ (pc = "done" /\ files # <<>>) =>
          /\ Len(log) = 2 * Len(files)
          /\ \A i \in 1..Len(files) :
                IF Processable(files[i])
                THEN /\ log[2 * i].kind = "saved"
                     /\ log[2 * i].n >= 1
                     /\ Len(Lines(files[i])) = runs * log[2 * i].n
                ELSE log[2 * i] = Logged("error", i)

\* how far the run is from its end, at most: a natural number
Variant ==
    CASE pc = "main" -> 8 * (Len(files) + 2)
      [] pc = "loop" -> 8 * (Len(files) + 1 - k) + 7
      [] pc = "load" -> 8 * (Len(files) + 1 - k) + 6
      [] pc = "tier1" -> 8 * (Len(files) + 1 - k) + 5
      [] pc = "tier2" -> 8 * (Len(files) + 1 - k) + 4
      [] pc = "fallback" -> 8 * (Len(files) + 1 - k) + 3
      [] pc = "save" -> 8 * (Len(files) + 1 - k) + 2
      [] pc \in {"report", "except"} -> 8 * (Len(files) + 1 - k) + 1
      [] OTHER -> 0

\* the run has a next step.  Tier1, Tier2 and Save have no guard but their
\* position: what follows it in them is an IF with both branches
HasNextStep ==
    \/ pc \in {"tier1", "tier2", "save"}
    \/ ENABLED (Main \/ NoFiles \/ BeginFile \/ EndLoop \/ Load \/ Fallback
                \/ Report \/ Except)

\* C7: whichever files fail to load, to be split or to be written, every file
\* of the listing is attempted once, in order, each one to its end (saved or
\* logged as failed) before the next begins; a file that can be processed is
\* written whatever happened to the files before it; no exception leaves
\* process_dir; and every run comes to its end: until it is over the run has a
\* next step, and each step brings it nearer to its end.
C7_FailureIsolation ==
    /\ []C7_Log
    /\ [](pc # "done" => HasNextStep)
    /\ [](Variant >= 0)
    /\ [][Step => Variant' < Variant]_vars

\* a run is over in which the first file failed and the second was written
C7_Witness ==
    /\ pc = "done" /\ Len(files) = 2
    /\ log[2].kind = "error" /\ log[4].kind = "saved"
    /\ Lines(files[2]) # <<>>

BadPattern == \E n \in 1..Len(addPattern) : Malformed(addPattern[n])

\* C8 as stated: with a malformed pattern no file is ever logged as being
\* processed or opened.
C8_Original ==
    BadPattern => ~InFile /\ \A j \in 1..Len(log) : log[j].kind # "processing"

\* C8, amended: a malformed pattern is not detected at start-up.  It makes
\* re.compile raise in split_by_paragraph_markers, for each file anew and after
\* the file was logged as being processed and loaded; process_dir catches the
\* error, so each file is logged as failed, detection never completes, no line
\* is written to any output file and no exception escapes.  With an empty
\* listing nothing is raised at all.
C8_CaughtPerFile ==
    BadPattern =>
        /\ pc \notin {"crashed", "tier2", "fallback", "save", "report"}
        /\ \A s \in Stems : out[s] = <<>>
        /\ pc \in {"tier1", "except"} => log[Len(log)] = Logged("processing", k)
        /\ pc = "done" =>
              IF files = <<>> THEN log = <<[kind |-> "nofiles", dir |-> PathStr(PathOf(inputDir))]>>
              ELSE /\ Len(log) = 2 * Len(files)
                   /\ \A i \in 1..Len(files) :
                         /\ log[2 * i - 1] = Logged("processing", i)
                         /\ log[2 * i] = Logged("error", i)

\* a run with a malformed pattern over two documents is over
C8_Witness ==
    /\ BadPattern /\ pc = "done" /\ Len(files) = 2
    /\ \A i \in 1..2 : files[i].valid /\ files[i].writable
    /\ ~strictFlags

\* C9: ids are not deduplicated: two lines of an output file have the same id
\* exactly when they have the same article_number.
C9_IdsNotDeduplicated ==
    \A s \in Stems :
        \A i, j \in 1..Len(out[s]) :
            (out[s][i].id = out[s][j].id)
                <=> (out[s][i].article_number = out[s][j].article_number)

\* in the first run, three records of one document share an id: the first and
\* the third by the number of their headers, the second by its position
C9_Witness ==
    /\ runs = 1 /\ Len(JustWritten) = 3
    /\ JustWritten[1].id = JustWritten[2].id
    /\ JustWritten[1].id = JustWritten[3].id
    /\ NumberedKeywords(JustWritten[1].title) # {}
    /\ NumberedKeywords(JustWritten[2].title) = {}
    /\ NumberedKeywords(JustWritten[3].title) # {}

\* the spans of tier 1 that cover the paragraph at (0-based) index q
Covering(q) ==
    { i \in 1..Len(articles) : articles[i].start_para <= q /\ q <= articles[i].end_para }

\* C10: the spans of tier 1 start at the boundary paragraphs, in strictly
\* increasing order; every paragraph from the first boundary on lies in exactly
\* one span and every paragraph before it in none; the text of a span is the
\* texts of its paragraphs joined with newlines, so that the texts of the spans
\* together are the document from its first boundary on and nothing else.
C10_Partition ==
    (pc = "save" /\ IsParaSpan(articles[1])) =>
        LET first == Min(BoundaryParas(paras, patterns)) - 1
        IN  /\ \A i \in 1..(Len(articles) - 1) :
                  articles[i].start_para < articles[i + 1].start_para
            /\ { articles[i].start_para + 1 : i \in 1..Len(articles) }
                  = BoundaryParas(paras, patterns)
            /\ \A q \in 0..(Len(paras) - 1) :
                  Cardinality(Covering(q)) = IF q >= first THEN 1 ELSE 0
            /\ \A i \in 1..Len(articles) :
                  articles[i].text =
                      Join(Texts(paras, articles[i].start_para, articles[i].end_para + 1))
            /\ Join([i \in 1..Len(articles) |-> articles[i].text])
                  = Join(Texts(paras, first, Len(paras)))

\* two spans, with a paragraph before the first boundary
C10_Witness ==
    /\ pc = "save" /\ IsParaSpan(articles[1])
    /\ Len(articles) = 2 /\ articles[1].start_para = 1

====
